---- MODULE Spec2Model ----
(***************************************************************************)
(* A model of src/utils.py: the match filters, the orientation normaliser, *)
(* the pairwise and per-team aggregators, the year gap filler and the      *)
(* hosting aggregator.                                                     *)
(*                                                                         *)
(* A pandas DataFrame is a sequence of rows, each row a record keyed by    *)
(* column name.  The match table keeps the columns the functions read:     *)
(* date (the index, here its year), home_team, away_team, home_score,      *)
(* away_score and country; tournament, city and neutral are only passed    *)
(* through (or dropped) by every function and are left out.  A function    *)
(* that can raise returns a record with an `err` field.  The pandas is the *)
(* one the code is written for: DataFrame.append exists and returns a new  *)
(* frame, a Grouper of frequency 'Y' makes one bin per calendar year.      *)
(***************************************************************************)
EXTENDS Integers, Sequences, FiniteSets, TLC

VARIABLES results, fifa, df, call, ret

vars == <<results, fifa, df, call, ret>>

(***************************************************************************)
(* Bounds of the model.                                                    *)
(***************************************************************************)
MaxLen == 2        \* rows of a match table
MaxTeams == 3      \* length of a list of teams
MaxSeason == 1     \* match dates range over 2000 .. 2000 + MaxSeason
YearSpan == 2      \* series years range over 2000 .. 2000 + YearSpan
MaxValue == 1      \* largest value of an input series

Teams == {"A", "B", "C"}
Scores == {0, 1}
Seasons == 2000 .. (2000 + MaxSeason)
Years == 2000 .. (2000 + YearSpan)
Entities == <<"A", "B">>

(***************************************************************************)
(* pandas helpers.                                                         *)
(***************************************************************************)
RECURSIVE Concat(_)
Concat(frames) ==
    IF frames = <<>> THEN <<>> ELSE Head(frames) \o Concat(Tail(frames))

RECURSIVE Dedup(_, _)
Dedup(s, seen) ==
    IF s = <<>> THEN <<>>
    ELSE IF Head(s) \in seen THEN Dedup(Tail(s), seen)
    ELSE <<Head(s)>> \o Dedup(Tail(s), seen \cup {Head(s)})

\* Series.unique(): the distinct values in order of first appearance.
Unique(s) == Dedup(s, {})

Column(frame, col) == [i \in 1 .. Len(frame) |-> frame[i][col]]

SetMin(S) == CHOOSE x \in S : \A y \in S : x <= y

SetMax(S) == CHOOSE x \in S : \A y \in S : y <= x

RECURSIVE InsertByDate(_, _)
InsertByDate(sorted, row) ==
    IF sorted = <<>> THEN <<row>>
    ELSE IF Head(sorted).date <= row.date
         THEN <<Head(sorted)>> \o InsertByDate(Tail(sorted), row)
         ELSE <<row>> \o sorted

RECURSIVE sort_index(_)
\* DataFrame.sort_index() on the date index; rows of equal date keep their
\* order (no function of the module reads the order of such rows).
sort_index(frame) ==
    IF frame = <<>> THEN <<>>
    ELSE InsertByDate(sort_index(SubSeq(frame, 1, Len(frame) - 1)), frame[Len(frame)])

(***************************************************************************)
(* Match filter.                                                           *)
(***************************************************************************)
TeamPlays(row, team) == row.home_team = team \/ row.away_team = team

\* pd.concat of one selection per listed team; pd.concat([]) raises.
filter_teams(table, teams) ==
    IF teams = <<>>
    THEN [err |-> "ValueError", rows |-> <<>>]
    ELSE [err |-> "none",
          rows |-> Concat([k \in 1 .. Len(teams) |->
                              SelectSeq(table, LAMBDA row : TeamPlays(row, teams[k]))])]

filter_encounter(table, team1, team2) ==
    SelectSeq(table, LAMBDA row :
        \/ (row.home_team = team1 /\ row.away_team = team2)
        \/ (row.home_team = team2 /\ row.away_team = team1))

get_home_match(table, team) ==
    SelectSeq(table, LAMBDA row : row.home_team = team)

get_away_match(table, team) ==
    SelectSeq(table, LAMBDA row : row.away_team = team)

(***************************************************************************)
(* Orientation normaliser.                                                 *)
(***************************************************************************)
swap_row(row) ==
    [row EXCEPT !.home_team = row.away_team, !.away_team = row.home_team,
                !.home_score = row.away_score, !.away_score = row.home_score]

swap_columns_teams_only(table) ==
    [i \in 1 .. Len(table) |->
        [table[i] EXCEPT !.home_team = table[i].away_team,
                         !.away_team = table[i].home_team]]

swap_columns(table) == [i \in 1 .. Len(table) |-> swap_row(table[i])]

WithHome(row, flag) ==
    [date |-> row.date, home_team |-> row.home_team, away_team |-> row.away_team,
     home_score |-> row.home_score, away_score |-> row.away_score,
     country |-> row.country, home |-> flag]

\* The flag the normalised-orientation record is described with: the side
\* the team was listed on before the swap.
merge_matches_listed_side(table, team) ==
    sort_index(
        [i \in 1 .. Len(get_home_match(table, team)) |->
            WithHome(get_home_match(table, team)[i], TRUE)]
        \o [i \in 1 .. Len(get_away_match(table, team)) |->
            WithHome(swap_row(get_away_match(table, team)[i]), FALSE)])

merge_matches(table, team) ==
    LET temp == sort_index(get_home_match(table, team)
                           \o swap_columns(get_away_match(table, team)))
    IN  [i \in 1 .. Len(temp) |-> WithHome(temp[i], temp[i].home_team = temp[i].country)]

goal_difference(table) ==
    [i \in 1 .. Len(table) |->
        [date |-> table[i].date, home_team |-> table[i].home_team,
         away_team |-> table[i].away_team, home_score |-> table[i].home_score,
         away_score |-> table[i].away_score, country |-> table[i].country,
         home |-> table[i].home,
         goal_difference |-> table[i].home_score - table[i].away_score]]

(***************************************************************************)
(* Pairwise aggregator.                                                    *)
(***************************************************************************)
ZeroTally ==
    [team1_score |-> 0, team2_score |-> 0, team1_wins |-> 0, team2_wins |-> 0,
     draws |-> 0]

\* A slip in the away branch: the outcome is read from the home side's view.
tally_row_home_view(acc, row, team1) ==
    IF row.home_team = team1
    THEN [acc EXCEPT
            !.team1_score = @ + row.home_score,
            !.team2_score = @ + row.away_score,
            !.team1_wins = IF row.home_score > row.away_score THEN @ + 1 ELSE @,
            !.team2_wins = IF row.home_score < row.away_score THEN @ + 1 ELSE @,
            !.draws = IF row.home_score = row.away_score THEN @ + 1 ELSE @]
    ELSE [acc EXCEPT
            !.team1_score = @ + row.away_score,
            !.team2_score = @ + row.home_score,
            !.team1_wins = IF row.home_score > row.away_score THEN @ + 1 ELSE @,
            !.team2_wins = IF row.home_score < row.away_score THEN @ + 1 ELSE @,
            !.draws = IF row.home_score = row.away_score THEN @ + 1 ELSE @]

\* A slip in the away branch: a level score counts for nobody.
tally_row_no_away_draw(acc, row, team1) ==
    IF row.home_team = team1
    THEN [acc EXCEPT
            !.team1_score = @ + row.home_score,
            !.team2_score = @ + row.away_score,
            !.team1_wins = IF row.home_score > row.away_score THEN @ + 1 ELSE @,
            !.team2_wins = IF row.home_score < row.away_score THEN @ + 1 ELSE @,
            !.draws = IF row.home_score = row.away_score THEN @ + 1 ELSE @]
    ELSE [acc EXCEPT
            !.team1_score = @ + row.away_score,
            !.team2_score = @ + row.home_score,
            !.team1_wins = IF row.away_score > row.home_score THEN @ + 1 ELSE @,
            !.team2_wins = IF row.away_score < row.home_score THEN @ + 1 ELSE @]

\* The body of the loop of aggregate_results.
tally_row(acc, row, team1) ==
    IF row.home_team = team1
    THEN [acc EXCEPT
            !.team1_score = @ + row.home_score,
            !.team2_score = @ + row.away_score,
            !.team1_wins = IF row.home_score > row.away_score THEN @ + 1 ELSE @,
            !.team2_wins = IF row.home_score < row.away_score THEN @ + 1 ELSE @,
            !.draws = IF row.home_score = row.away_score THEN @ + 1 ELSE @]
    ELSE [acc EXCEPT
            !.team1_score = @ + row.away_score,
            !.team2_score = @ + row.home_score,
            !.team1_wins = IF row.away_score > row.home_score THEN @ + 1 ELSE @,
            !.team2_wins = IF row.away_score < row.home_score THEN @ + 1 ELSE @,
            !.draws = IF row.away_score = row.home_score THEN @ + 1 ELSE @]

RECURSIVE tally(_, _, _)
tally(rows, team1, acc) ==
    IF rows = <<>> THEN acc
    ELSE tally(Tail(rows), team1, tally_row(acc, Head(rows), team1))

aggregate_results(table, team1, team2) ==
    LET acc == tally(filter_encounter(table, team1, team2), team1, ZeroTally)
    IN  [team1 |-> team1, team2 |-> team2,
         team1_score |-> acc.team1_score, team2_score |-> acc.team2_score,
         team1_wins |-> acc.team1_wins, team2_wins |-> acc.team2_wins,
         draws |-> acc.draws,
         total |-> acc.draws + acc.team2_wins + acc.team1_wins]

(***************************************************************************)
(* Team summary builder and multi-team aggregator.                         *)
(***************************************************************************)
ZeroSummary ==
    [win |-> 0, loss |-> 0, draw |-> 0, goal_average |-> 0,
     goal_scored_average |-> 0, goal_taken_average |-> 0]

\* The body of the loop of team_summary.
summary_row(acc, match) ==
    [acc EXCEPT
        !.win = IF match.home_score > match.away_score THEN @ + 1 ELSE @,
        !.draw = IF match.home_score > match.away_score THEN @
                 ELSE IF match.home_score = match.away_score THEN @ + 1 ELSE @,
        !.loss = IF match.home_score >= match.away_score THEN @ ELSE @ + 1,
        !.goal_average = @ + match.goal_difference,
        !.goal_scored_average = @ + match.home_score,
        !.goal_taken_average = @ + match.away_score]

RECURSIVE summarise(_, _)
summarise(rows, acc) ==
    IF rows = <<>> THEN acc ELSE summarise(Tail(rows), summary_row(acc, Head(rows)))

\* a / b of Python on a sum and a count: the quotient, kept exact.
Quotient(a, b) == [num |-> a, den |-> b]

\* The label of the first row of the ranking whose Country is the team; the
\* ranking carries the default index 0, 1, 2, ...
RankIndex(ranking, team) ==
    SetMin({i \in 1 .. Len(ranking) : ranking[i] = team}) - 1

SummaryOf(team, acc, ranking) ==
    [team |-> team, goal_average |-> acc.goal_average,
     goal_scored_average |->
        Quotient(acc.goal_scored_average, acc.win + acc.draw + acc.loss),
     goal_taken_average |->
        Quotient(acc.goal_taken_average, acc.win + acc.draw + acc.loss),
     win |-> acc.win, draw |-> acc.draw, loss |-> acc.loss,
     FIFA_rank |-> RankIndex(ranking, team)]

\* A summary that divides without failing (the averages come out as the
\* quotient 0 / 0 for a team without a match).
team_summary_unguarded(table, team, ranking) ==
    LET acc == summarise(goal_difference(merge_matches(table, team)), ZeroSummary)
    IN  IF \A i \in 1 .. Len(ranking) : ranking[i] # team
        THEN [err |-> "IndexError", row |-> <<>>]
        ELSE [err |-> "none", row |-> SummaryOf(team, acc, ranking)]

team_summary(table, team, ranking) ==
    LET acc == summarise(goal_difference(merge_matches(table, team)), ZeroSummary)
    IN  IF acc.win + acc.draw + acc.loss = 0
        THEN [err |-> "ZeroDivisionError", row |-> <<>>]
        ELSE IF \A i \in 1 .. Len(ranking) : ranking[i] # team
        THEN [err |-> "IndexError", row |-> <<>>]
        ELSE [err |-> "none", row |-> SummaryOf(team, acc, ranking)]

RECURSIVE summaries_loop(_, _, _, _)
\* The loop of aggregate_summaries: a summary that raises is skipped.
summaries_loop(data, teams, ranking, temp) ==
    IF teams = <<>> THEN temp
    ELSE LET s == team_summary(data, Head(teams), ranking)
         IN  summaries_loop(data, Tail(teams), ranking,
                            IF s.err = "none" THEN Append(temp, s.row) ELSE temp)

\* pd.to_numeric leaves the numbers of the summary columns as they are.
aggregate_summaries(data, teams, ranking) ==
    [err |-> "none", rows |-> summaries_loop(data, teams, ranking, <<>>)]

(***************************************************************************)
(* Country hosting aggregator.                                             *)
(***************************************************************************)
CountryRow(pays, hosted, year) ==
    [country |-> pays, match_hosted |-> hosted, date |-> year]

\* groupby(Grouper(freq='Y')).count(): the rows of one yearly bin.
YearCount(temp, year) == Cardinality({i \in 1 .. Len(temp) : temp[i].date = year})

RECURSIVE hosted_per_year(_, _, _, _, _)
\* A slip: each year carries its own count, not the running sum.
hosted_per_year(temp, pays, year, last, count) ==
    IF year > last THEN <<>>
    ELSE <<CountryRow(pays, YearCount(temp, year), year)>>
         \o hosted_per_year(temp, pays, year + 1, last, count)

RECURSIVE hosted_rows(_, _, _, _, _)
\* The yearly bins from the first to the last year of temp, each with the
\* running sum of the counts.
hosted_rows(temp, pays, year, last, count) ==
    IF year > last THEN <<>>
    ELSE <<CountryRow(pays, count + YearCount(temp, year), year)>>
         \o hosted_rows(temp, pays, year + 1, last, count + YearCount(temp, year))

RECURSIVE countries_loop(_, _, _)
\* The loop of aggregate_countries: a country without a hosted row raises
\* KeyError and is skipped.
countries_loop(table, names, df_final) ==
    IF names = <<>> THEN df_final
    ELSE LET pays == Head(names)
             temp == SelectSeq(table, LAMBDA row : row.country = pays)
             years == {temp[i].date : i \in 1 .. Len(temp)}
         IN  countries_loop(table, Tail(names),
                IF temp = <<>> THEN df_final
                ELSE df_final \o hosted_rows(temp, pays, SetMin(years), SetMax(years), 0))

aggregate_countries(table) ==
    countries_loop(table, Unique(Column(table, "home_team")), <<>>)

(***************************************************************************)
(* Time-series gap filler.  The two modes differ in the names and the      *)
(* order of the series' columns only: [date, cumulated_score, home_team]   *)
(* in team mode, [country, match_hosted, date] in country mode.            *)
(***************************************************************************)
EntityColumn(mode) == IF mode = "team" THEN "home_team" ELSE "country"

ValueColumn(mode) == IF mode = "team" THEN "cumulated_score" ELSE "match_hosted"

\* pd.Series([...], index=df.columns): the row appended for a year.
SeriesRow(mode, year, value, entity) ==
    IF mode = "team"
    THEN [date |-> year, cumulated_score |-> value, home_team |-> entity]
    ELSE [country |-> entity, match_hosted |-> value, date |-> year]

EntityRows(frame, mode, entity) ==
    SelectSeq(frame, LAMBDA row : row[EntityColumn(mode)] = entity)

EntityYears(frame, mode, entity) ==
    {EntityRows(frame, mode, entity)[i].date :
        i \in 1 .. Len(EntityRows(frame, mode, entity))}

EntityValues(frame, mode, entity) ==
    {EntityRows(frame, mode, entity)[i][ValueColumn(mode)] :
        i \in 1 .. Len(EntityRows(frame, mode, entity))}

before_gap_row(mode, gap, entity) == SeriesRow(mode, gap, 0, entity)

\* A slip: the row after the last year copies the row before the first.
after_gap_row_zero(frame, mode, after_gap, entity) ==
    SeriesRow(mode, after_gap, 0, entity)

after_gap_row(frame, mode, after_gap, entity) ==
    SeriesRow(mode, after_gap, SetMax(EntityValues(frame, mode, entity)), entity)

RECURSIVE after_gap_loop(_, _, _, _, _)
\* for after_gap in range(last year of the entity, max_year + 1)
after_gap_loop(frame, mode, entity, after_gap, max_year) ==
    IF after_gap > max_year THEN frame
    ELSE after_gap_loop(Append(frame, after_gap_row(frame, mode, after_gap, entity)),
                        mode, entity, after_gap + 1, max_year)

\* for gap in range(min_year, first year of the entity)
before_gap_loop(frame, mode, entity, min_year) ==
    frame \o [k \in 1 .. (SetMin(EntityYears(frame, mode, entity)) - min_year) |->
                before_gap_row(mode, min_year + k - 1, entity)]

fill_entity(frame, mode, entity, min_year, max_year) ==
    LET filled == before_gap_loop(frame, mode, entity, min_year)
    IN  after_gap_loop(filled, mode, entity,
                       SetMax(EntityYears(filled, mode, entity)), max_year)

RECURSIVE entities_loop(_, _, _, _, _)
entities_loop(frame, mode, entities, min_year, max_year) ==
    IF entities = <<>> THEN frame
    ELSE entities_loop(fill_entity(frame, mode, Head(entities), min_year, max_year),
                       mode, Tail(entities), min_year, max_year)

\* An unknown mode refused with an error instead of a printed line.
fill_years_refusing(frame, mode) ==
    IF mode \in {"team", "country"}
    THEN [err |-> "none", stdout |-> <<>>,
          df |-> IF frame = <<>> THEN frame
                 ELSE entities_loop(frame, mode,
                                    Unique(Column(frame, EntityColumn(mode))),
                                    SetMin({frame[i].date : i \in 1 .. Len(frame)}),
                                    SetMax({frame[i].date : i \in 1 .. Len(frame)}))]
    ELSE [err |-> "InvalidModeError", stdout |-> <<>>, df |-> <<>>]

\* An empty series has no entity to loop over and comes back as it is.
fill_years(frame, mode) ==
    IF mode \in {"team", "country"}
    THEN [err |-> "none", stdout |-> <<>>,
          df |-> IF frame = <<>> THEN frame
                 ELSE entities_loop(frame, mode,
                                    Unique(Column(frame, EntityColumn(mode))),
                                    SetMin({frame[i].date : i \in 1 .. Len(frame)}),
                                    SetMax({frame[i].date : i \in 1 .. Len(frame)}))]
    ELSE [err |-> "none", stdout |-> <<"please provide a mode">>, df |-> frame]

(***************************************************************************)
(* Inputs.                                                                 *)
(***************************************************************************)
Match(d, h, a, hs, as, c) ==
    [date |-> d, home_team |-> h, away_team |-> a, home_score |-> hs,
     away_score |-> as, country |-> c]

\* The tables of at most MaxLen rows over a set of rows, in date order.
Tables(rows) ==
    {t \in UNION {[1 .. n -> rows] : n \in 0 .. MaxLen} :
        \A i \in 1 .. Len(t) - 1 : t[i].date <= t[i + 1].date}

\* Rows that differ in who played whom.
FixtureRows ==
    {Match(2000, h, a, 1, 0, h) : <<h, a>> \in {p \in Teams \X Teams : p[1] # p[2]}}

\* Rows that differ in who played whom, when and where.
VenueRows ==
    {Match(d, p[1], p[2], 1, 0, c) :
        d \in Seasons, p \in {q \in Teams \X Teams : q[1] # q[2]}, c \in Teams}

\* Rows that differ in who played whom and in the score; a row may name one
\* team on both sides, which no function rules out.
ScoreRows ==
    {Match(2000, p[1], p[2], hs, as, p[1]) :
        p \in Teams \X Teams, hs \in Scores, as \in Scores}

TeamLists == UNION {[1 .. n -> Teams] : n \in 0 .. MaxTeams}

FullRanking == <<"C", "A", "B">>

Rankings == {<<>>, <<"B", "A">>, FullRanking}

\* One entity's input: a value for some of the years (-1: no row for the
\* year), non-negative and non-decreasing in the year.
Profiles ==
    {f \in [Years -> -1 .. MaxValue] :
        \A y1, y2 \in Years : (y1 < y2 /\ f[y1] >= 0 /\ f[y2] >= 0) => f[y1] <= f[y2]}

RECURSIVE ProfileRows(_, _, _, _)
ProfileRows(mode, entity, f, year) ==
    IF year \notin Years THEN <<>>
    ELSE (IF f[year] >= 0 THEN <<SeriesRow(mode, year, f[year], entity)>> ELSE <<>>)
         \o ProfileRows(mode, entity, f, year + 1)

\* The sparse series: one block of rows per entity, at most one row per
\* entity and year.
SeriesInputs(mode) ==
    {ProfileRows(mode, Entities[1], f, 2000) \o ProfileRows(mode, Entities[2], g, 2000) :
        f \in Profiles, g \in Profiles}

(***************************************************************************)
(* The state machine: the inputs are fixed by Init; each action is one     *)
(* call made from the idle state, recorded in `call`, with what it         *)
(* returned in `ret`; Return drops the result and is idle again.  The      *)
(* functions are pure: no call changes its inputs.                         *)
(***************************************************************************)
CallOf(op, team1, team2, teams, mode) ==
    [op |-> op, team1 |-> team1, team2 |-> team2, teams |-> teams, mode |-> mode]

NoCall == CallOf("none", "", "", <<>>, "")

Modes == {"team", "country", "year"}

FilterTeams ==
    \E teams \in TeamLists :
        /\ call = NoCall
        /\ call' = CallOf("filter_teams", "", "", teams, "")
        /\ ret' = filter_teams(results, teams)
        /\ UNCHANGED <<results, fifa, df>>

AggregateSummaries ==
    \E teams \in TeamLists :
        /\ call = NoCall
        /\ call' = CallOf("aggregate_summaries", "", "", teams, "")
        /\ ret' = aggregate_summaries(results, teams, fifa)
        /\ UNCHANGED <<results, fifa, df>>

MergeMatches ==
    \E team \in Teams :
        /\ call = NoCall
        /\ call' = CallOf("merge_matches", team, "", <<>>, "")
        /\ ret' = merge_matches(results, team)
        /\ UNCHANGED <<results, fifa, df>>

AggregateCountries ==
    /\ call = NoCall
    /\ call' = CallOf("aggregate_countries", "", "", <<>>, "")
    /\ ret' = aggregate_countries(results)
    /\ UNCHANGED <<results, fifa, df>>

AggregateResults ==
    \E team1 \in Teams, team2 \in Teams :
        /\ call = NoCall
        /\ call' = CallOf("aggregate_results", team1, team2, <<>>, "")
        /\ ret' = aggregate_results(results, team1, team2)
        /\ UNCHANGED <<results, fifa, df>>

TeamSummary ==
    \E team \in Teams :
        /\ call = NoCall
        /\ call' = CallOf("team_summary", team, "", <<>>, "")
        /\ ret' = team_summary(results, team, fifa)
        /\ UNCHANGED <<results, fifa, df>>

\* A series is filled in the mode its columns belong to, or in no mode.
FillYears ==
    \E mode \in Modes :
        /\ call = NoCall
        /\ mode \in {"team", "country"} =>
              \A i \in 1 .. Len(df) : EntityColumn(mode) \in DOMAIN df[i]
        /\ call' = CallOf("fill_years", "", "", <<>>, mode)
        /\ ret' = fill_years(df, mode)
        /\ UNCHANGED <<results, fifa, df>>

Return ==
    /\ call # NoCall
    /\ call' = NoCall
    /\ ret' = <<>>
    /\ UNCHANGED <<results, fifa, df>>

InitTeams ==
    /\ results \in Tables(FixtureRows)
    /\ fifa \in Rankings
    /\ df = <<>>
    /\ call = NoCall
    /\ ret = <<>>

InitVenue ==
    /\ results \in Tables(VenueRows)
    /\ fifa = FullRanking
    /\ df = <<>>
    /\ call = NoCall
    /\ ret = <<>>

InitScores ==
    /\ results \in Tables(ScoreRows)
    /\ fifa = FullRanking
    /\ df = <<>>
    /\ call = NoCall
    /\ ret = <<>>

InitSeries ==
    /\ results = <<>>
    /\ fifa = <<>>
    /\ df \in SeriesInputs("team") \cup SeriesInputs("country")
    /\ call = NoCall
    /\ ret = <<>>

NextTeams == FilterTeams \/ AggregateSummaries \/ Return

NextVenue == MergeMatches \/ AggregateCountries \/ Return

NextScores == AggregateResults \/ TeamSummary \/ Return

NextSeries == FillYears \/ Return

SpecTeams == InitTeams /\ [][NextTeams]_vars

SpecVenue == InitVenue /\ [][NextVenue]_vars

SpecScores == InitScores /\ [][NextScores]_vars

SpecSeries == InitSeries /\ [][NextSeries]_vars

(***************************************************************************)
(* The claims.                                                             *)
(***************************************************************************)
Occurrences(frame, row) == Cardinality({i \in 1 .. Len(frame) : frame[i] = row})

Listed(teams, row) == \E k \in 1 .. Len(teams) : TeamPlays(row, teams[k])

FilledIn(mode) == call.op = "fill_years" /\ call.mode = mode

Filled == FilledIn("team") \/ FilledIn("country")

FilledMode == call.mode

InputEntities == {df[i][EntityColumn(FilledMode)] : i \in 1 .. Len(df)}

InputYears == {df[i].date : i \in 1 .. Len(df)}

\* C1: after fill_years in team or country mode, every entity of the input
\* has exactly one row for each year from the least to the greatest year of
\* the whole input.
C1_OneRowPerEntityAndYear ==
    Filled =>
        \A e \in InputEntities :
            \A y \in SetMin(InputYears) .. SetMax(InputYears) :
                Cardinality({i \in 1 .. Len(ret.df) :
                                /\ ret.df[i][EntityColumn(FilledMode)] = e
                                /\ ret.df[i].date = y}) = 1

\* C2: after fill_years the input rows are kept as they were, every row
\* added before an entity's first year has value 0, every row added after
\* its last year has the entity's greatest input value, and the values of
\* an entity never decrease from a year to a later or equal year.
C2_ValuesNonDecreasing ==
    Filled =>
        /\ ret.err = "none"
        /\ Len(ret.df) >= Len(df)
        /\ SubSeq(ret.df, 1, Len(df)) = df
        /\ \A i \in Len(df) + 1 .. Len(ret.df) :
              LET e == ret.df[i][EntityColumn(FilledMode)]
                  v == ret.df[i][ValueColumn(FilledMode)]
              IN  /\ e \in InputEntities
                  /\ ret.df[i].date < SetMin(EntityYears(df, FilledMode, e)) => v = 0
                  /\ ret.df[i].date > SetMax(EntityYears(df, FilledMode, e)) =>
                        v = SetMax(EntityValues(df, FilledMode, e))
        /\ \A i, j \in 1 .. Len(ret.df) :
              (/\ ret.df[i][EntityColumn(FilledMode)] = ret.df[j][EntityColumn(FilledMode)]
               /\ ret.df[i].date <= ret.df[j].date)
                  => ret.df[i][ValueColumn(FilledMode)] <= ret.df[j][ValueColumn(FilledMode)]

\* An entity with a single input year strictly inside the range and a
\* positive value has been filled on both sides.
C2_Witness ==
    /\ Filled
    /\ \E e \in InputEntities :
          /\ Cardinality(EntityYears(df, FilledMode, e)) = 1
          /\ EntityValues(df, FilledMode, e) = {1}
          /\ SetMin(InputYears) < SetMin(EntityYears(df, FilledMode, e))
          /\ SetMax(EntityYears(df, FilledMode, e)) < SetMax(InputYears)
          /\ \E i, j \in Len(df) + 1 .. Len(ret.df) :
                /\ ret.df[i] = SeriesRow(FilledMode, SetMin(InputYears), 0, e)
                /\ ret.df[j] = SeriesRow(FilledMode, SetMax(InputYears), 1, e)

NoTeamTwice(teams) ==
    \A i, j \in 1 .. Len(teams) : teams[i] = teams[j] => i = j

\* C3: filter_teams returns each record with a listed team on either side
\* as many times as the table holds it, and no other record (stated for the
\* lists that name no team twice).
C3_FilterTeamsIsUnion ==
    (call.op = "filter_teams" /\ ret.err = "none" /\ NoTeamTwice(call.teams)) =>
        \A row \in FixtureRows :
            Occurrences(ret.rows, row) =
                IF Listed(call.teams, row) THEN Occurrences(results, row) ELSE 0

\* C4 as stated: in merge_matches(table, team) a record listed with the team
\* at home comes out flagged home, a record listed with the team away comes
\* out (swapped) flagged not home.
C4_HomeFlagIsListedSide ==
    call.op = "merge_matches" =>
        \A k \in 1 .. Len(results) :
            /\ results[k].home_team = call.team1 =>
                  Occurrences(ret, WithHome(results[k], TRUE))
                      = Occurrences(results, results[k])
            /\ results[k].away_team = call.team1 =>
                  Occurrences(ret, WithHome(swap_row(results[k]), FALSE))
                      = Occurrences(results, results[k])

\* C4 as amended: every row of merge_matches(table, team) has the team in
\* home_team and is flagged home exactly when the host country is the team,
\* whichever side the team was listed on.
C4_HomeFlagIsHostCountry ==
    call.op = "merge_matches" =>
        /\ Len(ret) = Cardinality({k \in 1 .. Len(results) :
                                     TeamPlays(results[k], call.team1)})
        /\ \A i \in 1 .. Len(ret) :
              /\ ret[i].home_team = call.team1
              /\ ret[i].home = (ret[i].country = call.team1)

\* The team was listed at home abroad (flag false) and listed away in its
\* own country (flag true).
C4_Witness ==
    /\ call.op = "merge_matches"
    /\ \E k \in 1 .. Len(results) :
          /\ results[k].home_team = call.team1
          /\ results[k].country # call.team1
          /\ WithHome(results[k], FALSE) \in {ret[i] : i \in 1 .. Len(ret)}
    /\ \E k \in 1 .. Len(results) :
          /\ results[k].away_team = call.team1
          /\ results[k].country = call.team1
          /\ WithHome(swap_row(results[k]), TRUE) \in {ret[i] : i \in 1 .. Len(ret)}

FilledOther == call.op = "fill_years" /\ call.mode \notin {"team", "country"}

\* C5 as stated: fill_years in any other mode ends in an error and returns
\* no table.
C5_UnknownModeRaises == FilledOther => ret.err # "none"

\* C5 as amended: fill_years in any other mode raises nothing, prints
\* "please provide a mode" and returns the input series as it is.
C5_UnknownModeReturnsInput ==
    FilledOther =>
        /\ ret.err = "none"
        /\ ret.stdout = <<"please provide a mode">>
        /\ ret.df = df

C5_Witness == FilledOther /\ Len(df) >= 2 /\ ret.df = df

\* team_summary succeeds: the team has a match and a row in the ranking.
Succeeds(table, team, ranking) ==
    /\ \E k \in 1 .. Len(table) : TeamPlays(table[k], team)
    /\ \E k \in 1 .. Len(ranking) : ranking[k] = team

\* C6: aggregate_summaries returns, with one row for each listed team whose
\* summary succeeds, in the order of the list, and no other row.
C6_SummariesOfSucceedingTeams ==
    call.op = "aggregate_summaries" =>
        /\ ret.err = "none"
        /\ Column(ret.rows, "team")
              = SelectSeq(call.teams, LAMBDA t : Succeeds(results, t, fifa))
        /\ \A i \in 1 .. Len(ret.rows) :
              ret.rows[i] = team_summary(results, ret.rows[i].team, fifa).row

\* A list with a team that succeeds, a team without a match and a team
\* missing from the ranking.
C6_Witness ==
    /\ call.op = "aggregate_summaries"
    /\ Len(ret.rows) = 1
    /\ \E i, j \in 1 .. Len(call.teams) :
          /\ \A k \in 1 .. Len(results) : ~TeamPlays(results[k], call.teams[i])
          /\ \E k \in 1 .. Len(fifa) : fifa[k] = call.teams[i]
          /\ \E k \in 1 .. Len(results) : TeamPlays(results[k], call.teams[j])
          /\ \A k \in 1 .. Len(fifa) : fifa[k] # call.teams[j]

OwnScore(row, team) ==
    IF row.home_team = team THEN row.home_score ELSE row.away_score

OtherScore(row, team) ==
    IF row.home_team = team THEN row.away_score ELSE row.home_score

Played(team) == {k \in 1 .. Len(results) : TeamPlays(results[k], team)}

\* C7: on a table whose records all have two different sides, a summary that
\* succeeds counts every record of the team once: win the records where the
\* team's own score is the greater, draw where the scores are level, loss
\* the rest.
C7_WinDrawLossCountMatches ==
    (/\ call.op = "team_summary"
     /\ ret.err = "none"
     /\ \A k \in 1 .. Len(results) : results[k].home_team # results[k].away_team)
        => /\ ret.row.win + ret.row.draw + ret.row.loss = Cardinality(Played(call.team1))
           /\ ret.row.win = Cardinality({k \in Played(call.team1) :
                   OwnScore(results[k], call.team1) > OtherScore(results[k], call.team1)})
           /\ ret.row.draw = Cardinality({k \in Played(call.team1) :
                   OwnScore(results[k], call.team1) = OtherScore(results[k], call.team1)})
           /\ ret.row.loss = Cardinality({k \in Played(call.team1) :
                   OwnScore(results[k], call.team1) < OtherScore(results[k], call.team1)})

\* The team won a match it was listed away in and lost one it was listed
\* at home in.
C7_Witness ==
    /\ call.op = "team_summary"
    /\ ret.err = "none"
    /\ ret.row.win = 1
    /\ ret.row.loss = 1
    /\ \E k \in 1 .. Len(results) :
          results[k].away_team = call.team1 /\ results[k].away_score > results[k].home_score
    /\ \E k \in 1 .. Len(results) :
          results[k].home_team = call.team1 /\ results[k].away_score > results[k].home_score

\* C8: every row (country, year, match_hosted) of aggregate_countries counts
\* the records of the table hosted by the country in that year or before,
\* so a country's count never decreases with the year.
C8_HostedIsRunningCount ==
    call.op = "aggregate_countries" =>
        /\ \A i \in 1 .. Len(ret) :
              ret[i].match_hosted =
                  Cardinality({k \in 1 .. Len(results) :
                                  /\ results[k].country = ret[i].country
                                  /\ results[k].date <= ret[i].date})
        /\ \A i, j \in 1 .. Len(ret) :
              (ret[i].country = ret[j].country /\ ret[i].date <= ret[j].date)
                  => ret[i].match_hosted <= ret[j].match_hosted

\* A country hosted in two different years: its later row carries both.
C8_Witness ==
    /\ call.op = "aggregate_countries"
    /\ \E i, j \in 1 .. Len(ret) :
          /\ ret[i].country = ret[j].country
          /\ ret[i].date < ret[j].date
          /\ ret[i].match_hosted = 1
          /\ ret[j].match_hosted = 2

\* C9: for two different teams, aggregate_results(T, a, b) and
\* aggregate_results(T, b, a) mirror each other: the scores and the wins of
\* the two sides are exchanged, draws and total are the same.
C9_EncountersMirror ==
    (call.op = "aggregate_results" /\ call.team1 # call.team2) =>
        LET other == aggregate_results(results, call.team2, call.team1)
        IN  /\ ret.team1_score = other.team2_score
            /\ ret.team2_score = other.team1_score
            /\ ret.team1_wins = other.team2_wins
            /\ ret.team2_wins = other.team1_wins
            /\ ret.draws = other.draws
            /\ ret.total = other.total

\* team1 met team2 home and away and won only the match it was listed away in.
C9_Witness ==
    /\ call.op = "aggregate_results"
    /\ call.team1 # call.team2
    /\ ret.total = 2
    /\ ret.team1_wins = 1
    /\ ret.team2_wins = 0
    /\ \E k \in 1 .. Len(results) :
          /\ results[k].away_team = call.team1
          /\ results[k].home_team = call.team2
          /\ results[k].away_score > results[k].home_score

Encounters == filter_encounter(results, call.team1, call.team2)

\* C10: the total of aggregate_results is the number of records of
\* filter_encounter for the pair; each of them counts once, as a draw when
\* the scores are level and as a win of the side with the greater score
\* otherwise.
C10_TotalCountsEncounters ==
    call.op = "aggregate_results" =>
        /\ ret.total = Len(Encounters)
        /\ ret.total = ret.team1_wins + ret.team2_wins + ret.draws
        /\ ret.draws = Cardinality({k \in 1 .. Len(Encounters) :
                Encounters[k].home_score = Encounters[k].away_score})
        /\ ret.team1_wins = Cardinality({k \in 1 .. Len(Encounters) :
                OwnScore(Encounters[k], call.team1) > OtherScore(Encounters[k], call.team1)})
        /\ ret.team2_wins = Cardinality({k \in 1 .. Len(Encounters) :
                OwnScore(Encounters[k], call.team1) < OtherScore(Encounters[k], call.team1)})

\* The pair drew a match in which team1 was listed away, and met twice.
C10_Witness ==
    /\ call.op = "aggregate_results"
    /\ ret.total = 2
    /\ ret.draws >= 1
    /\ \E k \in 1 .. Len(Encounters) :
          /\ Encounters[k].away_team = call.team1
          /\ Encounters[k].home_team # call.team1
          /\ Encounters[k].home_score = Encounters[k].away_score

====
